---- MODULE Spec2Model ----
(***************************************************************************)
(* Job-board REST API (Django REST framework over a relational schema).    *)
(* The state is the database: one table per resource collection, the       *)
(* AUTOINCREMENT sequence of every table, and the last HTTP exchange.      *)
(* One action per request handler; the request (requester, URL arguments,  *)
(* query parameters, body) is the action's input.                          *)
(* Text is a sequence of one-character strings, so that trimming,          *)
(* lower-casing, substring search and integer parsing are computed.        *)
(***************************************************************************)
EXTENDS Integers, Sequences, FiniteSets, TLC

VARIABLES db, seq, resp

vars == <<db, seq, resp>>

(* ------------------------------ bounds -------------------------------- *)

\* Caps on the sum of the AUTOINCREMENT sequences of the writable tables, one
\* for each specification (Spec: one insert after the seeded job; SpecOwned:
\* two inserts after the two seeded jobs; SpecProfiles: three inserts after
\* the seeded job).
MaxSeqApi == 2
MaxSeqOwned == 4
MaxSeqProfiles == 4

(* ------------------------------ users --------------------------------- *)

Users == {"u1", "u2"}
Anon == "anon"
Requesters == Users \cup {Anon}

\* NULL in a foreign-key column: the id no row has (AUTOINCREMENT starts at 1)
NULL == 0
\* NULL in a text column, kept comparable with the texts the column can hold
NullText == <<"null">>
\* query_params.get(name) is None, kept comparable with the texts it can be
Absent == <<"absent">>

\* request.query_params: each parameter is Absent or a text
NoParams == [q |-> Absent, category |-> Absent, type |-> Absent, location |-> Absent]

(* ------------------------------ text ---------------------------------- *)

Chars == {"a", "A", "b", " ", "1", "2", "3", "4", "5", "x"}
Digits == {"0", "1", "2", "3", "4", "5", "6", "7", "8", "9"}

\* str.lower() on one character
LowerChar(c) == IF c = "A" THEN "a" ELSE c

\* str.lower()
Lower(s) == [i \in 1..Len(s) |-> LowerChar(s[i])]

\* str.strip(): drop leading and trailing blanks
RECURSIVE LStrip(_)
LStrip(s) == IF s # <<>> /\ Head(s) = " " THEN LStrip(Tail(s)) ELSE s

RECURSIVE RStrip(_)
RStrip(s) ==
    IF s # <<>> /\ s[Len(s)] = " " THEN RStrip(SubSeq(s, 1, Len(s) - 1)) ELSE s

Strip(s) == RStrip(LStrip(s))

\* needle is a contiguous part of hay (case-sensitive)
Contains(hay, needle) ==
    \E i \in 1..(Len(hay) - Len(needle) + 1) :
        SubSeq(hay, i, i + Len(needle) - 1) = needle

\* the ORM's __icontains lookup
IContains(hay, needle) == Contains(Lower(hay), Lower(needle))

DigitVal(c) ==
    CASE c = "0" -> 0 [] c = "1" -> 1 [] c = "2" -> 2 [] c = "3" -> 3
      [] c = "4" -> 4 [] c = "5" -> 5 [] c = "6" -> 6 [] c = "7" -> 7
      [] c = "8" -> 8 [] c = "9" -> 9

\* int(value) succeeds: a non-empty run of digits, blanks around it allowed
IsInt(s) == Strip(s) # <<>> /\ \A i \in 1..Len(Strip(s)) : Strip(s)[i] \in Digits

RECURSIVE DecVal(_)
DecVal(s) == IF s = <<>> THEN 0
             ELSE 10 * DecVal(SubSeq(s, 1, Len(s) - 1)) + DigitVal(s[Len(s)])

\* int(value), defined where IsInt holds
ParseInt(s) == DecVal(Strip(s))

\* decimal text of a row id (ids stay below 10 within the bounds)
IdText(n) == CASE n = 1 -> <<"1">> [] n = 2 -> <<"2">> [] n = 3 -> <<"3">>
               [] n = 4 -> <<"4">> [] n = 5 -> <<"5">> [] OTHER -> <<"x">>

(* --------------------------- collections ------------------------------ *)

\* router.register(...) prefixes
Collections == {"jobs", "companies", "categories", "profiles", "applications",
                "saved-jobs", "industries", "job-types", "locations", "skills"}

\* viewsets.ReadOnlyModelViewSet
ReadOnlyColls == {"companies", "categories", "industries", "job-types", "locations"}

\* viewsets.ModelViewSet
WritableColls == Collections \ ReadOnlyColls

\* collections whose get_queryset filters on the requesting user
OwnedColls == {"profiles", "applications", "saved-jobs"}

\* the column of an owned table that holds the owner
OwnerField(c) == CASE c = "profiles" -> "user"
                   [] c = "applications" -> "applicant"
                   [] c = "saved-jobs" -> "user"

Owner(c, row) == row[OwnerField(c)]

Ids(rows) == {r.id : r \in rows}

RowById(c, id) == CHOOSE r \in db[c] : r.id = id

(* --------------------------- permissions ------------------------------ *)

Ops == {"list", "retrieve", "create", "update", "destroy"}
SafeOps == {"list", "retrieve"}
WriteOps == Ops \ SafeOps

\* permission_classes of the viewset, or DEFAULT_PERMISSION_CLASSES
PermissionClass(c) ==
    CASE c = "skills" -> "AllowAny"
      [] c \in OwnedColls -> "IsAuthenticated"
      [] OTHER -> "IsAuthenticatedOrReadOnly"

\* the op "unsave" is an HTTP DELETE
HasPermission(c, op, u) ==
    CASE PermissionClass(c) = "AllowAny" -> TRUE
      [] PermissionClass(c) = "IsAuthenticated" -> u # Anon
      [] OTHER -> op \in SafeOps \/ u # Anon

\* the actions the viewset class routes
Routed(c, op) == c \in WritableColls \/ op \in SafeOps

(* ---------------------------- responses ------------------------------- *)

NoBody == {}

\* the last exchange: the route and the query string of the request, the
\* status and the row ids in the body of the response (the requester is an
\* input of the request, not a part of the exchange)
Response(c, op, u, status, body) ==
    [coll |-> c, op |-> op, query |-> NoParams, status |-> status, body |-> body]

\* APIView.dispatch: initial() checks permissions, then the handler is looked up
Refusal(c, op, u) ==
    IF ~HasPermission(c, op, u) THEN 401
    ELSE IF ~Routed(c, op) THEN 405
    ELSE 0

Refuse(c, op, u) ==
    /\ Refusal(c, op, u) # 0
    /\ resp' = Response(c, op, u, Refusal(c, op, u), NoBody)
    /\ UNCHANGED <<db, seq>>

(* ----------------------------- querysets ------------------------------ *)

\* Python truthiness of query_params.get(name): None and '' are false
Truthy(v) == v # Absent /\ v # <<>>

CompanyName(id) == (CHOOSE c \in db["companies"] : c.id = id).name

\* filter(<fk>__id=value) raises ValueError when int(value) fails
IdFilterRaises(v) == Truthy(v) /\ ~IsInt(v)

\* filter(<fk>__id=value) on one row, applied only when the parameter is truthy
IdFilter(v, fk) == Truthy(v) => (fk # NULL /\ fk = ParseInt(v))

\* Q(title__icontains) | Q(description__icontains) | Q(company__name__icontains)
SearchFilter(q, j) ==
    Truthy(q) => \/ IContains(j.title, q)
                 \/ IContains(j.description, q)
                 \/ IContains(CompanyName(j.company), q)

\* JobViewSet.queryset
ActiveJobs == {j \in db["jobs"] : j.is_active}

\* JobViewSet.get_queryset
JobQueryset(p) ==
    {j \in ActiveJobs : /\ SearchFilter(p.q, j)
                        /\ IdFilter(p.category, j.category)
                        /\ IdFilter(p.type, j.job_type)
                        /\ IdFilter(p.location, j.location)}

\* SkillViewSet.get_queryset
SkillQueryset(p) ==
    IF Truthy(p.q) THEN {s \in db["skills"] : IContains(s.name, p.q)}
    ELSE db["skills"]

\* UserProfileViewSet.get_queryset
ProfileQueryset(u) ==
    IF u # Anon THEN {r \in db["profiles"] : r.user = u} ELSE {}

\* ApplicationViewSet.get_queryset
ApplicationQueryset(u) == {r \in db["applications"] : r.applicant = u}

\* get_queryset without the filter on the requesting user
SavedJobQuerysetUnscoped(u) == db["saved-jobs"]

\* SavedJobViewSet.get_queryset
SavedJobQueryset(u) == {r \in db["saved-jobs"] : r.user = u}

\* get_queryset() of the viewset serving collection c
Queryset(c, u, p) ==
    CASE c = "jobs" -> JobQueryset(p)
      [] c = "skills" -> SkillQueryset(p)
      [] c = "profiles" -> ProfileQueryset(u)
      [] c = "applications" -> ApplicationQueryset(u)
      [] c = "saved-jobs" -> SavedJobQueryset(u)
      [] OTHER -> db[c]

\* get_queryset() raises (an unhandled exception: HTTP 500)
QuerysetRaises(c, p) ==
    /\ c = "jobs"
    /\ \/ IdFilterRaises(p.category)
       \/ IdFilterRaises(p.type)
       \/ IdFilterRaises(p.location)

\* get_object(): get_object_or_404 answers a pk that int() rejects with 404
Lookup(c, u, p, pk) ==
    {r \in Queryset(c, u, p) : IsInt(pk) /\ r.id = ParseInt(pk)}

(* --------------------------- read handlers ---------------------------- *)

Reply(c, op, u, status, body) ==
    /\ resp' = Response(c, op, u, status, body)
    /\ UNCHANGED <<db, seq>>

\* the answer to a request on the collection route with query string p
Answer(c, op, u, p, status, body) ==
    /\ resp' = [Response(c, op, u, status, body) EXCEPT !.query = p]
    /\ UNCHANGED <<db, seq>>

\* ListModelMixin.list
List(c, u, p) ==
    IF Refusal(c, "list", u) # 0 THEN Refuse(c, "list", u)
    ELSE IF QuerysetRaises(c, p) THEN Answer(c, "list", u, p, 500, NoBody)
    ELSE Answer(c, "list", u, p, 200, Ids(Queryset(c, u, p)))

\* RetrieveModelMixin.retrieve
Retrieve(c, u, p, pk) ==
    IF Refusal(c, "retrieve", u) # 0 THEN Refuse(c, "retrieve", u)
    ELSE IF QuerysetRaises(c, p) THEN Reply(c, "retrieve", u, 500, NoBody)
    ELSE IF Lookup(c, u, p, pk) = {} THEN Reply(c, "retrieve", u, 404, NoBody)
    ELSE Reply(c, "retrieve", u, 200, Ids(Lookup(c, u, p, pk)))

\* create, update and destroy on a ReadOnlyModelViewSet
ReadOnlyWrite(c, op, u) ==
    /\ c \in ReadOnlyColls
    /\ op \in WriteOps
    /\ Refuse(c, op, u)

(* ------------------------- request bodies ----------------------------- *)

Has(data, f) == f \in DOMAIN data

EmptyBody == [f \in {} |-> NULL]

\* table c with row `old` replaced by `new`
Replace(rows, old, new) == (rows \ {old}) \cup {new}

Insert(c, row) ==
    /\ db' = [db EXCEPT ![c] = @ \cup {row}]
    /\ seq' = [seq EXCEPT ![c] = @ + 1]

(* ------------------------------ saved jobs ---------------------------- *)

JobExists(id) == \E j \in db["jobs"] : j.id = id

\* SavedJobSerializer validation: 'job' is a primary key of Job.objects.all()
SavedJobInvalid(data, partial) ==
    \/ ~partial /\ ~Has(data, "job")
    \/ Has(data, "job") /\ ~JobExists(data.job)

\* uniqueness checked for new rows only, not for a row that is updated
SavedJobConflictOnInsert(row) ==
    /\ row.id \notin Ids(db["saved-jobs"])
    /\ \E r \in db["saved-jobs"] : r.user = row.user /\ r.job = row.job

\* SavedJob.Meta.unique_together = ('user', 'job'), enforced by the database
SavedJobConflict(row) ==
    \E r \in db["saved-jobs"] : r.id # row.id /\ r.user = row.user /\ r.job = row.job

\* CreateModelMixin.create with SavedJobViewSet.perform_create
SavedJobCreate(u, data) ==
    LET c == "saved-jobs"
        row == [id |-> seq[c] + 1, user |-> u, job |-> data.job]
    IN  IF Refusal(c, "create", u) # 0 THEN Refuse(c, "create", u)
        ELSE IF SavedJobInvalid(data, FALSE) THEN Reply(c, "create", u, 400, NoBody)
        ELSE IF SavedJobConflict(row) THEN Reply(c, "create", u, 500, NoBody)
        ELSE /\ resp' = Response(c, "create", u, 201, {row.id})
             /\ Insert(c, row)

\* UpdateModelMixin.update / partial_update
SavedJobUpdate(u, pk, data, partial) ==
    LET c == "saved-jobs"
        found == Lookup(c, u, NoParams, pk)
        old == CHOOSE r \in found : TRUE
        new == IF Has(data, "job") THEN [old EXCEPT !.job = data.job] ELSE old
    IN  IF Refusal(c, "update", u) # 0 THEN Refuse(c, "update", u)
        ELSE IF found = {} THEN Reply(c, "update", u, 404, NoBody)
        ELSE IF SavedJobInvalid(data, partial) THEN Reply(c, "update", u, 400, NoBody)
        ELSE IF SavedJobConflict(new) THEN Reply(c, "update", u, 500, NoBody)
        ELSE /\ resp' = Response(c, "update", u, 200, {new.id})
             /\ db' = [db EXCEPT ![c] = Replace(@, old, new)]
             /\ UNCHANGED seq

\* DestroyModelMixin.destroy
SavedJobDestroy(u, pk) ==
    LET c == "saved-jobs"
        found == Lookup(c, u, NoParams, pk)
    IN  IF Refusal(c, "destroy", u) # 0 THEN Refuse(c, "destroy", u)
        ELSE IF found = {} THEN Reply(c, "destroy", u, 404, NoBody)
        ELSE /\ resp' = Response(c, "destroy", u, 204, NoBody)
             /\ db' = [db EXCEPT ![c] = @ \ found]
             /\ UNCHANGED seq

\* the lookup without the filter on the requesting user
UnsaveMatchAnyUser(u, job_id) ==
    {r \in db["saved-jobs"] : r.job = ParseInt(job_id)}

\* SavedJob.objects.get(user=request.user, job_id=job_id)
UnsaveMatch(u, job_id) ==
    {r \in db["saved-jobs"] : r.user = u /\ r.job = ParseInt(job_id)}

\* SavedJobViewSet.unsave: only SavedJob.DoesNotExist is caught
Unsave(u, job_id) ==
    LET c == "saved-jobs"
        found == UnsaveMatch(u, job_id)
    IN  IF Refusal(c, "unsave", u) # 0 THEN Refuse(c, "unsave", u)
        ELSE IF ~IsInt(job_id) THEN Reply(c, "unsave", u, 500, NoBody)
        ELSE IF found = {} THEN Reply(c, "unsave", u, 404, NoBody)
        ELSE IF Cardinality(found) > 1 THEN Reply(c, "unsave", u, 500, NoBody)
        ELSE /\ resp' = Response(c, "unsave", u, 204, NoBody)
             /\ db' = [db EXCEPT ![c] = @ \ found]
             /\ UNCHANGED seq

(* -------------------------------- jobs -------------------------------- *)

RowExists(c, id) == \E r \in db[c] : r.id = id

Blank(text) == Strip(text) = <<>>

\* JobSerializer validation (CharField trims and rejects blank text; every
\* PrimaryKeyRelatedField is required, only category_id takes null)
JobInvalid(data, partial) ==
    \/ /\ ~partial
       /\ \E f \in {"title", "description", "company_id", "category_id",
                    "location_id", "job_type_id"} : ~Has(data, f)
    \/ Has(data, "title") /\ Blank(data.title)
    \/ Has(data, "description") /\ Blank(data.description)
    \/ Has(data, "company_id") /\ ~RowExists("companies", data.company_id)
    \/ Has(data, "category_id") /\ data.category_id # NULL
                                /\ ~RowExists("categories", data.category_id)
    \/ Has(data, "location_id") /\ ~RowExists("locations", data.location_id)
    \/ Has(data, "job_type_id") /\ ~RowExists("job-types", data.job_type_id)

\* serializer.save(): validated fields written over the row (source= mapping)
JobMerge(row, data) ==
    [row EXCEPT
        !.title = IF Has(data, "title") THEN Strip(data.title) ELSE @,
        !.description = IF Has(data, "description") THEN Strip(data.description) ELSE @,
        !.company = IF Has(data, "company_id") THEN data.company_id ELSE @,
        !.category = IF Has(data, "category_id") THEN data.category_id ELSE @,
        !.location = IF Has(data, "location_id") THEN data.location_id ELSE @,
        !.job_type = IF Has(data, "job_type_id") THEN data.job_type_id ELSE @,
        !.is_active = IF Has(data, "is_active") THEN data.is_active ELSE @]

\* model defaults of Job (is_active = True)
JobDefaults(id) ==
    [id |-> id, title |-> <<>>, description |-> <<>>, company |-> NULL,
     category |-> NULL, location |-> NULL, job_type |-> NULL, is_active |-> TRUE]

\* CreateModelMixin.create on JobViewSet
JobCreate(u, data) ==
    LET c == "jobs"
        row == JobMerge(JobDefaults(seq[c] + 1), data)
    IN  IF Refusal(c, "create", u) # 0 THEN Refuse(c, "create", u)
        ELSE IF JobInvalid(data, FALSE) THEN Reply(c, "create", u, 400, NoBody)
        ELSE /\ resp' = Response(c, "create", u, 201, {row.id})
             /\ Insert(c, row)

\* UpdateModelMixin.update / partial_update on JobViewSet
JobUpdate(u, p, pk, data, partial) ==
    LET c == "jobs"
        found == Lookup(c, u, p, pk)
        old == CHOOSE r \in found : TRUE
        new == JobMerge(old, data)
    IN  IF Refusal(c, "update", u) # 0 THEN Refuse(c, "update", u)
        ELSE IF QuerysetRaises(c, p) THEN Reply(c, "update", u, 500, NoBody)
        ELSE IF found = {} THEN Reply(c, "update", u, 404, NoBody)
        ELSE IF JobInvalid(data, partial) THEN Reply(c, "update", u, 400, NoBody)
        ELSE /\ resp' = Response(c, "update", u, 200, {new.id})
             /\ db' = [db EXCEPT ![c] = Replace(@, old, new)]
             /\ UNCHANGED seq

\* Application.job and SavedJob.job are on_delete=CASCADE
JobCascade(rows, gone) == {r \in rows : r.job \notin Ids(gone)}

\* DestroyModelMixin.destroy on JobViewSet
JobDestroy(u, p, pk) ==
    LET c == "jobs"
        found == Lookup(c, u, p, pk)
    IN  IF Refusal(c, "destroy", u) # 0 THEN Refuse(c, "destroy", u)
        ELSE IF QuerysetRaises(c, p) THEN Reply(c, "destroy", u, 500, NoBody)
        ELSE IF found = {} THEN Reply(c, "destroy", u, 404, NoBody)
        ELSE /\ resp' = Response(c, "destroy", u, 204, NoBody)
             /\ db' = [db EXCEPT ![c] = @ \ found,
                                 !["applications"] = JobCascade(@, found),
                                 !["saved-jobs"] = JobCascade(@, found)]
             /\ UNCHANGED seq

(* ---------------------------- applications ---------------------------- *)

\* ApplicationSerializer validation: 'job' is a primary key of Job.objects.all()
ApplicationInvalid(data, partial) ==
    \/ ~partial /\ ~Has(data, "job")
    \/ Has(data, "job") /\ ~JobExists(data.job)

\* the table without its uniqueness constraint
ApplicationNoConstraint(row) == FALSE

\* Application.Meta.unique_together = ('job', 'applicant'), enforced by the database
ApplicationConflict(row) ==
    \E r \in db["applications"] :
        r.id # row.id /\ r.job = row.job /\ r.applicant = row.applicant

\* a serializer without read_only_fields: applicant and status are written too
ApplicationMergeAllFields(row, data) ==
    [row EXCEPT
        !.job = IF Has(data, "job") THEN data.job ELSE @,
        !.applicant = IF Has(data, "applicant") THEN data.applicant ELSE @,
        !.status = IF Has(data, "status") THEN data.status ELSE @,
        !.cover_letter = IF Has(data, "cover_letter")
                         THEN Strip(data.cover_letter) ELSE @]

\* a serializer that writes job only
ApplicationMergeJobOnly(row, data) ==
    [row EXCEPT !.job = IF Has(data, "job") THEN data.job ELSE @]

\* writable fields: job, cover_letter; applicant, status, date_applied are read-only
ApplicationMerge(row, data) ==
    [row EXCEPT
        !.job = IF Has(data, "job") THEN data.job ELSE @,
        !.cover_letter = IF Has(data, "cover_letter")
                         THEN (IF data.cover_letter = NullText THEN NullText
                               ELSE Strip(data.cover_letter))
                         ELSE @]

\* model defaults of Application (status = 'PENDING')
ApplicationDefaults(id, u) ==
    [id |-> id, job |-> NULL, applicant |-> u, status |-> "PENDING",
     cover_letter |-> NullText]

\* CreateModelMixin.create with ApplicationViewSet.perform_create
ApplicationCreate(u, data) ==
    LET c == "applications"
        row == ApplicationMerge(ApplicationDefaults(seq[c] + 1, u), data)
    IN  IF Refusal(c, "create", u) # 0 THEN Refuse(c, "create", u)
        ELSE IF ApplicationInvalid(data, FALSE) THEN Reply(c, "create", u, 400, NoBody)
        ELSE IF ApplicationConflict(row) THEN Reply(c, "create", u, 500, NoBody)
        ELSE /\ resp' = Response(c, "create", u, 201, {row.id})
             /\ Insert(c, row)

\* UpdateModelMixin.update / partial_update on ApplicationViewSet
ApplicationUpdate(u, pk, data, partial) ==
    LET c == "applications"
        found == Lookup(c, u, NoParams, pk)
        old == CHOOSE r \in found : TRUE
        new == ApplicationMerge(old, data)
    IN  IF Refusal(c, "update", u) # 0 THEN Refuse(c, "update", u)
        ELSE IF found = {} THEN Reply(c, "update", u, 404, NoBody)
        ELSE IF ApplicationInvalid(data, partial) THEN Reply(c, "update", u, 400, NoBody)
        ELSE IF ApplicationConflict(new) THEN Reply(c, "update", u, 500, NoBody)
        ELSE /\ resp' = Response(c, "update", u, 200, {new.id})
             /\ db' = [db EXCEPT ![c] = Replace(@, old, new)]
             /\ UNCHANGED seq

\* DestroyModelMixin.destroy on ApplicationViewSet
ApplicationDestroy(u, pk) ==
    LET c == "applications"
        found == Lookup(c, u, NoParams, pk)
    IN  IF Refusal(c, "destroy", u) # 0 THEN Refuse(c, "destroy", u)
        ELSE IF found = {} THEN Reply(c, "destroy", u, 404, NoBody)
        ELSE /\ resp' = Response(c, "destroy", u, 204, NoBody)
             /\ db' = [db EXCEPT ![c] = @ \ found]
             /\ UNCHANGED seq

(* ------------------------------- skills ------------------------------- *)

\* SkillSerializer validation: name is required, trimmed, not blank, and the
\* UniqueValidator of Skill.name (unique=True) excludes the instance itself
SkillInvalid(data, partial, self) ==
    \/ ~partial /\ ~Has(data, "name")
    \/ Has(data, "name") /\ Blank(data.name)
    \/ Has(data, "name") /\ \E s \in db["skills"] :
                                s.id # self /\ s.name = Strip(data.name)

\* CreateModelMixin.create on SkillViewSet
SkillCreate(u, data) ==
    LET c == "skills"
        row == [id |-> seq[c] + 1, name |-> Strip(data.name)]
    IN  IF Refusal(c, "create", u) # 0 THEN Refuse(c, "create", u)
        ELSE IF SkillInvalid(data, FALSE, 0) THEN Reply(c, "create", u, 400, NoBody)
        ELSE /\ resp' = Response(c, "create", u, 201, {row.id})
             /\ Insert(c, row)

\* UpdateModelMixin.update / partial_update on SkillViewSet
SkillUpdate(u, p, pk, data, partial) ==
    LET c == "skills"
        found == Lookup(c, u, p, pk)
        old == CHOOSE r \in found : TRUE
        new == IF Has(data, "name") THEN [old EXCEPT !.name = Strip(data.name)] ELSE old
    IN  IF Refusal(c, "update", u) # 0 THEN Refuse(c, "update", u)
        ELSE IF found = {} THEN Reply(c, "update", u, 404, NoBody)
        ELSE IF SkillInvalid(data, partial, old.id) THEN Reply(c, "update", u, 400, NoBody)
        ELSE /\ resp' = Response(c, "update", u, 200, {new.id})
             /\ db' = [db EXCEPT ![c] = Replace(@, old, new)]
             /\ UNCHANGED seq

\* deleting a Skill deletes its rows of the UserProfile.skills join table
SkillCascade(profiles, gone) ==
    {[r EXCEPT !.skills = @ \ Ids(gone)] : r \in profiles}

\* DestroyModelMixin.destroy on SkillViewSet
SkillDestroy(u, p, pk) ==
    LET c == "skills"
        found == Lookup(c, u, p, pk)
    IN  IF Refusal(c, "destroy", u) # 0 THEN Refuse(c, "destroy", u)
        ELSE IF found = {} THEN Reply(c, "destroy", u, 404, NoBody)
        ELSE /\ resp' = Response(c, "destroy", u, 204, NoBody)
             /\ db' = [db EXCEPT ![c] = @ \ found,
                                 !["profiles"] = SkillCascade(@, found)]
             /\ UNCHANGED seq

(* ------------------------------ profiles ------------------------------ *)

\* the lookup of get_or_create: Skill.objects.get(name=name.strip().lower())
SkillLookupKey(name) == Lower(Strip(name))

\* the name a created Skill gets: defaults={'name': name.strip()}
SkillCreateName(name) == Strip(name)

\* Skill.objects.get_or_create(name=..., defaults=...) on table `skills` whose
\* sequence stands at `next`; ok = FALSE is the IntegrityError it re-raises
GetOrCreate(name, skills, next) ==
    LET hit == {s \in skills : s.name = SkillLookupKey(name)}
    IN  IF hit # {}
        THEN [ok |-> TRUE, id |-> (CHOOSE s \in hit : TRUE).id,
              skills |-> skills, next |-> next]
        ELSE IF \E s \in skills : s.name = SkillCreateName(name)
        THEN [ok |-> FALSE, id |-> 0, skills |-> skills, next |-> next]
        ELSE [ok |-> TRUE, id |-> next + 1,
              skills |-> skills \cup {[id |-> next + 1, name |-> SkillCreateName(name)]},
              next |-> next + 1]

\* the loop `for name in skill_names` of UserProfileSerializer.create / update
RECURSIVE ResolveSkills(_, _, _)
ResolveSkills(names, skills, next) ==
    IF names = <<>>
    THEN [ok |-> TRUE, objs |-> {}, skills |-> skills, next |-> next]
    ELSE LET g == GetOrCreate(Head(names), skills, next)
             rest == ResolveSkills(Tail(names), g.skills, g.next)
         IN  IF ~g.ok
             THEN [ok |-> FALSE, objs |-> {}, skills |-> skills, next |-> next]
             ELSE [ok |-> rest.ok, objs |-> {g.id} \cup rest.objs,
                   skills |-> rest.skills, next |-> rest.next]

\* ListField(child=CharField()): every name is trimmed and must not be blank
ProfileInvalid(data) ==
    Has(data, "skill_names") /\
        \E i \in 1..Len(data.skill_names) : Blank(data.skill_names[i])

\* validated_data['skill_names'] (None when the key is not sent)
ValidatedNames(data) ==
    IF Has(data, "skill_names")
    THEN [i \in 1..Len(data.skill_names) |-> Strip(data.skill_names[i])]
    ELSE <<>>

\* super().create / super().update: the core profile fields
ProfileMerge(row, data) ==
    [row EXCEPT !.current_title = IF Has(data, "current_title")
                                  THEN Strip(data.current_title) ELSE @]

\* UserProfile.user is a OneToOneField: one profile per user
ProfileConflict(u) == \E r \in db["profiles"] : r.user = u

\* writes that are kept whatever happens after them
NotAtomic(before, after, ok) == after

\* @transaction.atomic: the writes of the block are kept when it returns and
\* rolled back when an exception leaves it
Atomic(before, after, ok) == IF ok THEN after ELSE before

\* skills.set(skill_objects) that adds the objects and removes none
SetSkillsAdding(current, objs) == current \cup objs

\* instance.skills.set(skill_objects): the associations become the objects
SetSkills(current, objs) == objs

\* UserProfileSerializer.create under UserProfileViewSet.perform_create:
\* super().create inserts the core row, the loop resolves the names, set()
\* writes the associations; an IntegrityError of get_or_create leaves the
\* atomic block before set() is reached (HTTP 500)
ProfileCreate(u, data) ==
    LET c == "profiles"
        res == ResolveSkills(ValidatedNames(data), db["skills"], seq["skills"])
        core == ProfileMerge([id |-> seq[c] + 1, user |-> u,
                              current_title |-> <<>>, skills |-> {}], data)
        row == IF res.ok THEN [core EXCEPT !.skills = SetSkills(@, res.objs)]
               ELSE core
        written == [db EXCEPT ![c] = @ \cup {row}, !["skills"] = res.skills]
        counted == [seq EXCEPT ![c] = @ + 1, !["skills"] = res.next]
    IN  IF Refusal(c, "create", u) # 0 THEN Refuse(c, "create", u)
        ELSE IF ProfileInvalid(data) THEN Reply(c, "create", u, 400, NoBody)
        ELSE IF ProfileConflict(u) THEN Reply(c, "create", u, 500, NoBody)
        ELSE /\ resp' = IF res.ok THEN Response(c, "create", u, 201, {row.id})
                        ELSE Response(c, "create", u, 500, NoBody)
             /\ db' = Atomic(db, written, res.ok)
             /\ seq' = Atomic(seq, counted, res.ok)

\* UserProfileSerializer.update: super().update saves the core fields, the
\* loop resolves the names, set() writes the associations
ProfileUpdate(u, pk, data) ==
    LET c == "profiles"
        found == Lookup(c, u, NoParams, pk)
        old == CHOOSE r \in found : TRUE
        res == ResolveSkills(ValidatedNames(data), db["skills"], seq["skills"])
        core == ProfileMerge(old, data)
        new == IF Has(data, "skill_names") /\ res.ok
               THEN [core EXCEPT !.skills = SetSkills(@, res.objs)]
               ELSE core
        written == [db EXCEPT ![c] = Replace(@, old, new), !["skills"] = res.skills]
        counted == [seq EXCEPT !["skills"] = res.next]
    IN  IF Refusal(c, "update", u) # 0 THEN Refuse(c, "update", u)
        ELSE IF found = {} THEN Reply(c, "update", u, 404, NoBody)
        ELSE IF ProfileInvalid(data) THEN Reply(c, "update", u, 400, NoBody)
        ELSE /\ resp' = IF res.ok THEN Response(c, "update", u, 200, {new.id})
                        ELSE Response(c, "update", u, 500, NoBody)
             /\ db' = Atomic(db, written, res.ok)
             /\ seq' = Atomic(seq, counted, res.ok)

\* DestroyModelMixin.destroy on UserProfileViewSet
ProfileDestroy(u, pk) ==
    LET c == "profiles"
        found == Lookup(c, u, NoParams, pk)
    IN  IF Refusal(c, "destroy", u) # 0 THEN Refuse(c, "destroy", u)
        ELSE IF found = {} THEN Reply(c, "destroy", u, 404, NoBody)
        ELSE /\ resp' = Response(c, "destroy", u, 204, NoBody)
             /\ db' = [db EXCEPT ![c] = @ \ found]
             /\ UNCHANGED seq

(* --------------------------- initial state ---------------------------- *)

\* reference rows entered through the admin site
SeedLookups ==
    [c \in Collections |->
        CASE c = "industries" -> {[id |-> 1, name |-> <<"a">>]}
          [] c = "locations" -> {[id |-> 1, name |-> <<"b">>]}
          [] c = "job-types" -> {[id |-> 1, name |-> <<"a">>, slug |-> <<"A">>]}
          [] c = "categories" -> {[id |-> 1, name |-> <<"b">>]}
          [] c = "companies" -> {[id |-> 1, name |-> <<"A", "b">>,
                                  industry |-> 1, location |-> 1]}
          [] OTHER -> {}]

SeedJob(id) ==
    [id |-> id, title |-> <<"a">>, description |-> <<"b">>, company |-> 1,
     category |-> NULL, location |-> 1, job_type |-> 1, is_active |-> TRUE]

NoResponse == Response("none", "none", Anon, 0, NoBody)

\* a database holding the reference rows and the posted jobs
Seeded(jobs) ==
    /\ db = [SeedLookups EXCEPT !["jobs"] = jobs]
    /\ seq = [c \in Collections |-> Cardinality(db[c])]
    /\ resp = NoResponse

\* one posted job
Init == Seeded({SeedJob(1)})

\* reference rows for the job search: two of each kind
SearchLookups ==
    [c \in Collections |->
        CASE c = "industries" -> {[id |-> 1, name |-> <<"a">>]}
          [] c = "locations" -> {[id |-> i, name |-> <<"b">>] : i \in 1..2}
          [] c = "job-types" -> {[id |-> i, name |-> <<"a">>, slug |-> IdText(i)] : i \in 1..2}
          [] c = "categories" -> {[id |-> i, name |-> IdText(i)] : i \in 1..2}
          [] c = "companies" -> {[id |-> 1, name |-> <<"A", "b">>,
                                  industry |-> 1, location |-> 1],
                                 [id |-> 2, name |-> <<"b">>,
                                  industry |-> 1, location |-> 2]}
          [] OTHER -> {}]

\* posted jobs that differ in every column the search reads; job 4 was
\* deactivated
SearchJobs ==
    {[id |-> 1, title |-> <<"a">>, description |-> <<"b">>, company |-> 1,
      category |-> NULL, location |-> 1, job_type |-> 1, is_active |-> TRUE],
     [id |-> 2, title |-> <<"b">>, description |-> <<"b">>, company |-> 2,
      category |-> 1, location |-> 2, job_type |-> 2, is_active |-> TRUE],
     [id |-> 3, title |-> <<"b">>, description |-> <<"b", " ", "A">>, company |-> 2,
      category |-> 2, location |-> 1, job_type |-> 1, is_active |-> TRUE],
     [id |-> 4, title |-> <<"a">>, description |-> <<"b">>, company |-> 1,
      category |-> 1, location |-> 1, job_type |-> 1, is_active |-> FALSE]}

InitJobs ==
    /\ db = [SearchLookups EXCEPT !["jobs"] = SearchJobs]
    /\ seq = [c \in Collections |-> Cardinality(db[c])]
    /\ resp = NoResponse

\* two posted jobs
InitOwned == Seeded({SeedJob(1), SeedJob(2)})

(* ------------------------------ requests ------------------------------ *)

\* primary keys sent in URLs: every id of the table, an unused id, a non-number
PkInputs(c) == {IdText(r.id) : r \in db[c]} \cup {IdText(seq[c] + 1), <<"x">>}

\* ids sent in bodies as foreign keys: every id of the table and an unused id
FkInputs(c) == Ids(db[c]) \cup {seq[c] + 1}

\* a request refused before its handler runs never reads its arguments:
\* one representative of S stands for all of them
Args(c, op, u, S) ==
    IF Refusal(c, op, u) # 0 THEN {CHOOSE x \in S : TRUE} ELSE S

\* PATCH with every body, PUT with every body
Updates(bodies) == bodies \X BOOLEAN

JobBodies ==
    {[title |-> <<"a">>, description |-> <<"b">>, company_id |-> cid,
      category_id |-> NULL, location_id |-> 1, job_type_id |-> 1] :
        cid \in FkInputs("companies")}
    \cup {[is_active |-> b] : b \in BOOLEAN}

FkBodies == {[job |-> j] : j \in FkInputs("jobs")} \cup {EmptyBody}

\* the last body also sends the read-only fields applicant and status
ApplicationBodies ==
    FkBodies \cup {[cover_letter |-> <<"a", " ">>]}
            \cup {[job |-> 1, cover_letter |-> <<"a">>,
                   applicant |-> "u2", status |-> "ACCEPTED"]}

NameInputs == {<<"a">>, <<" ", "A">>, <<" ">>}

SkillBodies == {[name |-> n] : n \in NameInputs} \cup {EmptyBody}

CoreProfileBodies == {[current_title |-> <<"b", " ">>], EmptyBody}

ProfileBodies ==
    {[skill_names |-> l] : l \in {<<>>} \cup {<<n>> : n \in NameInputs}
                                 \cup {<<<<"A">>, <<"a", " ">>>>}}
    \cup {[current_title |-> <<"A">>, skill_names |-> <<<<"b">>, <<"A">>>>]}
    \cup CoreProfileBodies

RECURSIVE SeqSum(_, _)
SeqSum(sq, S) == IF S = {} THEN 0
                 ELSE LET c == CHOOSE x \in S : TRUE IN sq[c] + SeqSum(sq, S \ {c})

\* the step keeps the sequences of the writable tables within cap
Within(cap) == SeqSum(seq', WritableColls) <= cap

(* a request addressed to one row: the body, and PUT or PATCH, are chosen here *)

JobUpdateAt(u, pk) ==
    \E a \in Updates(JobBodies) : JobUpdate(u, NoParams, pk, a[1], a[2])

ApplicationUpdateAt(u, pk) ==
    \E a \in Updates(ApplicationBodies) : ApplicationUpdate(u, pk, a[1], a[2])

SavedJobUpdateAt(u, pk) ==
    \E a \in Updates(FkBodies) : SavedJobUpdate(u, pk, a[1], a[2])

SkillUpdateAt(u, pk) ==
    \E a \in Updates(SkillBodies) : SkillUpdate(u, NoParams, pk, a[1], a[2])

ProfileUpdateAt(u, pk, bodies) == \E d \in bodies : ProfileUpdate(u, pk, d)

\* retrieve, update or destroy by u of the row of collection c that pk names
Detail(c, op, u, pk) ==
    CASE op = "retrieve" -> Retrieve(c, u, NoParams, pk)
      [] c \in ReadOnlyColls -> ReadOnlyWrite(c, op, u)
      [] c = "jobs" /\ op = "update" -> JobUpdateAt(u, pk)
      [] c = "jobs" /\ op = "destroy" -> JobDestroy(u, NoParams, pk)
      [] c = "applications" /\ op = "update" -> ApplicationUpdateAt(u, pk)
      [] c = "applications" /\ op = "destroy" -> ApplicationDestroy(u, pk)
      [] c = "saved-jobs" /\ op = "update" -> SavedJobUpdateAt(u, pk)
      [] c = "saved-jobs" /\ op = "destroy" -> SavedJobDestroy(u, pk)
      [] c = "skills" /\ op = "update" -> SkillUpdateAt(u, pk)
      [] c = "skills" /\ op = "destroy" -> SkillDestroy(u, NoParams, pk)
      [] c = "profiles" /\ op = "update" -> ProfileUpdateAt(u, pk, ProfileBodies)
      [] c = "profiles" /\ op = "destroy" -> ProfileDestroy(u, pk)
      [] OTHER -> FALSE

\* POST to the collection route
Create(c, u, bodies) ==
    CASE c \in ReadOnlyColls -> ReadOnlyWrite(c, "create", u)
      [] c = "jobs" ->
            \E d \in Args(c, "create", u, JobBodies) : JobCreate(u, d)
      [] c = "applications" ->
            \E d \in Args(c, "create", u, ApplicationBodies) : ApplicationCreate(u, d)
      [] c = "saved-jobs" ->
            \E d \in Args(c, "create", u, FkBodies) : SavedJobCreate(u, d)
      [] c = "skills" -> \E d \in SkillBodies : SkillCreate(u, d)
      [] c = "profiles" ->
            \E d \in Args(c, "create", u, bodies) : ProfileCreate(u, d)

\* any request of requester u that the router maps to (c, op)
Request(c, op, u) ==
    CASE op = "list" -> List(c, u, NoParams)
      [] op = "create" -> Create(c, u, ProfileBodies)
      [] op = "unsave" ->
            /\ c = "saved-jobs"
            /\ \E job_id \in Args(c, op, u, PkInputs("jobs")) : Unsave(u, job_id)
      [] op \in {"retrieve", "update", "destroy"} ->
            \E pk \in Args(c, op, u, PkInputs(c)) : Detail(c, op, u, pk)
      [] OTHER -> FALSE

\* the step is a request of requester u (the response names the route)
StepBy(u) == Request(resp'.coll, resp'.op, u)

(* the requests of each route, by any requester *)

\* a POST that keeps the sequences of the writable tables within cap
CreateReq(c, bodies, cap) ==
    /\ \E u \in Requesters : Create(c, u, bodies)
    /\ Within(cap)

\* a request on an existing route that inserts nothing
RouteReq(c, op) ==
    /\ \E u \in Requesters : Request(c, op, u)
    /\ UNCHANGED seq

\* PUT or PATCH of a profile, which may insert skills
ProfileUpdateWithin(bodies, cap) ==
    /\ \E u \in Requesters :
           \E pk \in Args("profiles", "update", u, PkInputs("profiles")) :
               ProfileUpdateAt(u, pk, bodies)
    /\ Within(cap)

ListReq(colls) == \E c \in colls : RouteReq(c, "list")

RetrieveReq(colls) == \E c \in colls : RouteReq(c, "retrieve")

ReadOnlyWriteReq ==
    /\ \E c \in ReadOnlyColls, op \in WriteOps, u \in Requesters : ReadOnlyWrite(c, op, u)
    /\ UNCHANGED seq

JobUpdateReq == RouteReq("jobs", "update") /\ resp'.coll = "jobs"

JobDestroyReq == RouteReq("jobs", "destroy") /\ resp'.coll = "jobs"

ApplicationUpdateReq == RouteReq("applications", "update") /\ resp'.coll = "applications"

ApplicationDestroyReq == RouteReq("applications", "destroy") /\ resp'.coll = "applications"

SavedJobUpdateReq == RouteReq("saved-jobs", "update") /\ resp'.coll = "saved-jobs"

SavedJobDestroyReq == RouteReq("saved-jobs", "destroy") /\ resp'.coll = "saved-jobs"

UnsaveReq == RouteReq("saved-jobs", "unsave") /\ resp'.op = "unsave"

SkillUpdateReq == RouteReq("skills", "update") /\ resp'.coll = "skills"

SkillDestroyReq == RouteReq("skills", "destroy") /\ resp'.coll = "skills"

ProfileDestroyReq == RouteReq("profiles", "destroy") /\ resp'.coll = "profiles"

(* --------------------------- specifications --------------------------- *)

JobCreateReq == CreateReq("jobs", {}, MaxSeqApi) /\ resp'.coll = "jobs"

ApplicationCreateReq ==
    CreateReq("applications", {}, MaxSeqApi) /\ resp'.coll = "applications"

SavedJobCreateReq == CreateReq("saved-jobs", {}, MaxSeqApi) /\ resp'.coll = "saved-jobs"

SkillCreateReq == CreateReq("skills", {}, MaxSeqApi) /\ resp'.coll = "skills"

ProfileCreateReq ==
    CreateReq("profiles", ProfileBodies, MaxSeqApi) /\ resp'.coll = "profiles"

ProfileUpdateReq ==
    ProfileUpdateWithin(ProfileBodies, MaxSeqApi) /\ resp'.coll = "profiles"

\* the whole API
Next ==
    \/ ListReq(Collections)
    \/ RetrieveReq(Collections)
    \/ ReadOnlyWriteReq
    \/ JobCreateReq
    \/ JobUpdateReq
    \/ JobDestroyReq
    \/ ApplicationCreateReq
    \/ ApplicationUpdateReq
    \/ ApplicationDestroyReq
    \/ SavedJobCreateReq
    \/ SavedJobUpdateReq
    \/ SavedJobDestroyReq
    \/ UnsaveReq
    \/ SkillCreateReq
    \/ SkillUpdateReq
    \/ SkillDestroyReq
    \/ ProfileCreateReq
    \/ ProfileUpdateReq
    \/ ProfileDestroyReq

Spec == Init /\ [][Next]_vars

OwnedApplicationCreateReq ==
    CreateReq("applications", {}, MaxSeqOwned) /\ resp'.coll = "applications"

OwnedSavedJobCreateReq ==
    CreateReq("saved-jobs", {}, MaxSeqOwned) /\ resp'.coll = "saved-jobs"

OwnedProfileCreateReq ==
    CreateReq("profiles", CoreProfileBodies, MaxSeqOwned) /\ resp'.coll = "profiles"

OwnedProfileUpdateReq ==
    ProfileUpdateWithin(CoreProfileBodies, MaxSeqOwned) /\ resp'.coll = "profiles"

\* the collections scoped to their owner, and the deletion of jobs they refer to
NextOwned ==
    \/ ListReq(OwnedColls)
    \/ RetrieveReq(OwnedColls)
    \/ JobDestroyReq
    \/ OwnedApplicationCreateReq
    \/ ApplicationUpdateReq
    \/ ApplicationDestroyReq
    \/ OwnedSavedJobCreateReq
    \/ SavedJobUpdateReq
    \/ SavedJobDestroyReq
    \/ UnsaveReq
    \/ OwnedProfileCreateReq
    \/ OwnedProfileUpdateReq
    \/ ProfileDestroyReq

SpecOwned == InitOwned /\ [][NextOwned]_vars

(* profiles and the skills they name *)

ProfilesSkillCreateReq ==
    CreateReq("skills", {}, MaxSeqProfiles) /\ resp'.coll = "skills"

ProfilesCreateReq ==
    CreateReq("profiles", ProfileBodies, MaxSeqProfiles) /\ resp'.coll = "profiles"

ProfilesUpdateReq ==
    ProfileUpdateWithin(ProfileBodies, MaxSeqProfiles) /\ resp'.coll = "profiles"

NextProfiles ==
    \/ ListReq({"profiles", "skills"})
    \/ RetrieveReq({"profiles", "skills"})
    \/ ProfilesSkillCreateReq
    \/ SkillUpdateReq
    \/ SkillDestroyReq
    \/ ProfilesCreateReq
    \/ ProfilesUpdateReq
    \/ ProfileDestroyReq

SpecProfiles == Init /\ [][NextProfiles]_vars

(* the job search *)

\* query strings of GET /jobs/
JobParams ==
    [q : {Absent, <<>>, <<"a">>, <<"A", "b">>},
     category : {Absent, <<>>, <<"1">>, <<"2">>, <<"x">>},
     type : {Absent, <<"1">>, <<"x">>},
     location : {Absent, <<"2">>, <<"x">>}]

JobSearchReq ==
    /\ \E u \in Requesters, p \in JobParams : List("jobs", u, p)
    /\ resp'.op = "list"

\* PATCH {"is_active": false}
JobDeactivateReq ==
    /\ \E u \in Requesters :
           \E pk \in Args("jobs", "update", u, PkInputs("jobs")) :
               JobUpdate(u, NoParams, pk, [is_active |-> FALSE], TRUE)
    /\ resp'.op = "update"

\* query strings sent to /jobs/<pk>/
DetailParams ==
    {NoParams,
     [NoParams EXCEPT !.q = <<"A", "b">>],
     [NoParams EXCEPT !.category = <<"2">>],
     [NoParams EXCEPT !.category = <<"x">>],
     [NoParams EXCEPT !.type = <<"1">>, !.location = <<"2">>]}

\* GET /jobs/<pk>/?...
JobRetrieveReq ==
    /\ \E u \in Requesters, p \in DetailParams :
           \E pk \in PkInputs("jobs") : Retrieve("jobs", u, p, pk)
    /\ resp'.op = "retrieve"

\* PATCH /jobs/<pk>/?... {"is_active": true}
JobActivateReq ==
    /\ \E u \in Requesters, p \in DetailParams :
           \E pk \in Args("jobs", "update", u, PkInputs("jobs")) :
               JobUpdate(u, p, pk, [is_active |-> TRUE], TRUE)
    /\ resp'.op = "update"

\* DELETE /jobs/<pk>/?...
JobFilteredDestroyReq ==
    /\ \E u \in Requesters, p \in DetailParams :
           \E pk \in Args("jobs", "destroy", u, PkInputs("jobs")) :
               JobDestroy(u, p, pk)
    /\ resp'.op = "destroy"

NextJobs ==
    \/ JobSearchReq
    \/ JobRetrieveReq
    \/ JobDeactivateReq
    \/ JobActivateReq
    \/ JobFilteredDestroyReq

SpecJobs == InitJobs /\ [][NextJobs]_vars

(* ============================== claims ================================ *)

OwnedBy(c, u) == {r \in db[c] : Owner(c, r) = u}

NotOwnedBy(c, u) == {r \in db[c] : Owner(c, r) # u}

\* the step answers a request on route (c, op)
Answers(c, op) == resp'.coll = c /\ resp'.op = op

Unchanged == db' = db /\ seq' = seq

(* C2: on profiles, applications and saved-jobs a list request of an
   authenticated user u is answered 200 with exactly the rows u owns, and a
   retrieve, update or delete of u addressed to the id of a row owned by
   another user is answered 404 and changes nothing. *)
C2_OwnerScoped ==
    [][\A c \in OwnedColls, u \in Users :
          /\ (Answers(c, "list") /\ List(c, u, NoParams)) =>
                (resp'.status = 200 /\ resp'.body = Ids(OwnedBy(c, u)))
          /\ \A op \in {"retrieve", "update", "destroy"}, r \in NotOwnedBy(c, u) :
                (Answers(c, op) /\ Detail(c, op, u, IdText(r.id))) =>
                    (resp'.status = 404 /\ Unchanged)]_vars

\* a detail request was answered 404 on an owned collection in which every row
\* is owned by one user and the other user owns none
C2_Witness ==
    /\ resp.coll \in OwnedColls
    /\ resp.op \in {"retrieve", "update", "destroy"}
    /\ resp.status = 404
    /\ \E u \in Users : OwnedBy(resp.coll, u) = {} /\ Cardinality(db[resp.coll]) = 2

ApplicationsUnique(rows) ==
    \A a, b \in rows : (a.job = b.job /\ a.applicant = b.applicant) => a = b

(* C4: every step leaves at most one application for each (job, applicant)
   pair, and a create of user u for a job u has already applied to leaves
   the applications table as it was. *)
C4_OneApplicationPerPair ==
    [][/\ ApplicationsUnique(db'["applications"])
       /\ \A u \in Users, d \in ApplicationBodies :
             (/\ Answers("applications", "create")
              /\ Has(d, "job")
              /\ \E r \in db["applications"] : r.job = d.job /\ r.applicant = u
              /\ ApplicationCreate(u, d))
             => db'["applications"] = db["applications"]]_vars

\* a create was refused by the uniqueness constraint and the earlier application stands
C4_Witness ==
    /\ resp.coll = "applications" /\ resp.op = "create" /\ resp.status = 500
    /\ db["applications"] # {}

(* C5: in every reachable state there is at most one saved job for each
   (user, job) pair, whatever creates, updates, deletes and unsaves led to it. *)
C5_OneSavedJobPerPair ==
    \A a, b \in db["saved-jobs"] : (a.user = b.user /\ a.job = b.job) => a = b

\* an update of a saved job's job to one the same user had already saved was
\* refused by the uniqueness constraint; both saved jobs stand
C5_Witness ==
    /\ resp.coll = "saved-jobs" /\ resp.op = "update" /\ resp.status = 500
    /\ \E a, b \in db["saved-jobs"] : a.user = b.user /\ a.job # b.job

\* the saved job of user u for the job that the URL text job_id names
SavedFor(u, job_id) ==
    {r \in db["saved-jobs"] : r.user = u /\ IsInt(job_id) /\ r.job = ParseInt(job_id)}

(* C7: when user u sends DELETE saved-jobs/unsave/<job_id> and a saved job
   for (u, job_id) exists, the answer is 204, exactly that row is removed,
   and every other saved job and every other table stay as they were. *)
C7_UnsaveRemovesOne ==
    [][\A u \in Users, job_id \in PkInputs("jobs") :
          (/\ Answers("saved-jobs", "unsave")
           /\ SavedFor(u, job_id) # {}
           /\ Unsave(u, job_id))
          => /\ resp'.status = 204
             /\ Cardinality(SavedFor(u, job_id)) = 1
             /\ db'["saved-jobs"] = db["saved-jobs"] \ SavedFor(u, job_id)
             /\ \A c \in Collections \ {"saved-jobs"} : db'[c] = db[c]
             /\ seq' = seq]_vars

\* an unsave was answered 204 and another saved job is still stored
C7_Witness ==
    /\ resp.coll = "saved-jobs" /\ resp.op = "unsave" /\ resp.status = 204
    /\ db["saved-jobs"] # {}

(* C8: when an authenticated user u sends DELETE saved-jobs/unsave/<job_id>
   for any job_id the route accepts and no saved job for (u, job_id) exists,
   the answer is 404 and nothing stored changes. *)
C8_UnsaveMissingIs404 ==
    [][\A u \in Users, job_id \in PkInputs("jobs") :
          (/\ Answers("saved-jobs", "unsave")
           /\ SavedFor(u, job_id) = {}
           /\ Unsave(u, job_id))
          => (resp'.status = 404 /\ Unchanged)]_vars

(* C1: a request made by user u leaves the profiles, applications and saved
   jobs owned by any other user exactly as they were, whatever collection
   the request addresses. *)
C1_OthersRowsUntouched ==
    [][\A u \in Users :
          StepBy(u) =>
              \A c \in OwnedColls :
                  {r \in db'[c] : Owner(c, r) # u} = NotOwnedBy(c, u)]_vars

(* C3: a create, update or delete sent without authentication is never
   carried out: it is not answered 2xx and no table changes. *)
C3_AnonymousWritesRefused ==
    [][(resp'.op \in WriteOps \cup {"unsave"} /\ StepBy(Anon)) =>
          (resp'.status \notin {200, 201, 204} /\ Unchanged)]_vars

(* ---- C10: create, update and delete on each collection ---- *)

\* the bodies a POST to collection c is tried with
CreateBodies(c) ==
    CASE c = "jobs" -> JobBodies
      [] c = "applications" -> ApplicationBodies
      [] c = "saved-jobs" -> FkBodies
      [] c = "skills" -> SkillBodies
      [] c = "profiles" -> ProfileBodies
      [] OTHER -> {EmptyBody}

\* POST of body d to collection c by u
CreateStep(c, u, d) ==
    CASE c = "jobs" -> JobCreate(u, d)
      [] c = "applications" -> ApplicationCreate(u, d)
      [] c = "saved-jobs" -> SavedJobCreate(u, d)
      [] c = "skills" -> SkillCreate(u, d)
      [] c = "profiles" -> ProfileCreate(u, d)
      [] OTHER -> ReadOnlyWrite(c, "create", u)

\* PUT (partial = FALSE) or PATCH of body d to the row pk of collection c by u
UpdateStep(c, u, pk, d, partial) ==
    CASE c = "jobs" -> JobUpdate(u, NoParams, pk, d, partial)
      [] c = "applications" -> ApplicationUpdate(u, pk, d, partial)
      [] c = "saved-jobs" -> SavedJobUpdate(u, pk, d, partial)
      [] c = "skills" -> SkillUpdate(u, NoParams, pk, d, partial)
      [] c = "profiles" -> ProfileUpdate(u, pk, d)
      [] OTHER -> ReadOnlyWrite(c, "update", u)

\* body d passes the serializer's validation and, written by u as row `self`
\* (0 for a new row), breaks no uniqueness constraint of the database
Acceptable(c, u, d, partial, self) ==
    CASE c = "jobs" -> ~JobInvalid(d, partial)
      [] c = "applications" ->
            /\ ~ApplicationInvalid(d, partial)
            /\ Has(d, "job") =>
                  ~\E r \in db[c] : r.id # self /\ r.job = d.job /\ r.applicant = u
      [] c = "saved-jobs" ->
            /\ ~SavedJobInvalid(d, partial)
            /\ Has(d, "job") =>
                  ~\E r \in db[c] : r.id # self /\ r.job = d.job /\ r.user = u
      [] c = "skills" -> ~SkillInvalid(d, partial, self)
      [] c = "profiles" ->
            /\ ~ProfileInvalid(d)
            /\ self = 0 => ~ProfileConflict(u)
            /\ ResolveSkills(ValidatedNames(d), db["skills"], seq["skills"]).ok
      [] OTHER -> TRUE

\* the row carries what body d sent for the fields that can be written
Carries(c, row, d) ==
    CASE c = "jobs" -> Has(d, "is_active") => row.is_active = d.is_active
      [] c = "applications" ->
            /\ Has(d, "job") => row.job = d.job
            /\ Has(d, "cover_letter") => row.cover_letter = Strip(d.cover_letter)
      [] c = "saved-jobs" -> Has(d, "job") => row.job = d.job
      [] c = "skills" -> Has(d, "name") => row.name = Strip(d.name)
      [] c = "profiles" ->
            Has(d, "current_title") => row.current_title = Strip(d.current_title)
      [] OTHER -> TRUE

\* what a successful create of body d on collection c leaves behind
Created(c, d) ==
    /\ resp'.status = 201
    /\ db[c] \subseteq db'[c]
    /\ Cardinality(db'[c]) = Cardinality(db[c]) + 1
    /\ \E row \in db'[c] \ db[c] : Carries(c, row, d)

\* what a successful update of row old with body d leaves behind
Updated(c, old, d) ==
    /\ resp'.status = 200
    /\ db'[c] \ {r \in db'[c] : r.id = old.id} = db[c] \ {old}
    /\ \E row \in db'[c] : row.id = old.id /\ Carries(c, row, d)

\* create, update and delete of authenticated user u work on collection c:
\* no step is an acceptable request of u without showing the request's effect
CrudHolds(c, u) ==
    /\ Answers(c, "create") =>
          \A d \in CreateBodies(c) :
              \/ Created(c, d)
              \/ ~Acceptable(c, u, d, FALSE, 0)
              \/ ~CreateStep(c, u, d)
    /\ Answers(c, "update") =>
          \A old \in Queryset(c, u, NoParams), d \in CreateBodies(c), partial \in BOOLEAN :
              \/ Updated(c, old, d)
              \/ ~Acceptable(c, u, d, partial, old.id)
              \/ ~UpdateStep(c, u, IdText(old.id), d, partial)
    /\ Answers(c, "destroy") =>
          \A old \in Queryset(c, u, NoParams) :
              \/ resp'.status = 204 /\ db'[c] = db[c] \ {old}
              \/ ~Detail(c, "destroy", u, IdText(old.id))

\* a write of authenticated user u on read-only collection c is answered 405
\* and changes nothing
ReadOnlyHolds(c, u) ==
    \A op \in WriteOps :
        (Answers(c, op) /\ ReadOnlyWrite(c, op, u)) =>
            (resp'.status = 405 /\ Unchanged)

Canonical(name) == Lower(Strip(name))

\* the canonical names of the rows of the Skill table
CanonicalSkills(skills) == {Canonical(s.name) : s \in skills}

\* the canonical names a list of names asks for
CanonicalNames(names) == {Canonical(names[i]) : i \in DOMAIN names}

\* the Skill table after the step: nothing removed, one new row for each
\* canonical name of the list that no skill had
SkillsResolved(names) ==
    /\ db["skills"] \subseteq db'["skills"]
    /\ Cardinality(db'["skills"]) - Cardinality(db["skills"]) =
          Cardinality(CanonicalNames(names) \ CanonicalSkills(db["skills"]))

(* C6: a profile create or update whose skill_names are valid succeeds, adds
   one Skill for each canonical name that no skill had, and adds none for a
   name some skill already has. *)
C6_SkillNamesGetOrCreate ==
    [][\A u \in Users, d \in ProfileBodies :
          (Has(d, "skill_names") /\ ~ProfileInvalid(d)) =>
              /\ (/\ Answers("profiles", "create")
                  /\ ~ProfileConflict(u)
                  /\ ProfileCreate(u, d))
                 => (resp'.status = 201 /\ SkillsResolved(d.skill_names))
              /\ \A old \in ProfileQueryset(u) :
                    (/\ Answers("profiles", "update")
                     /\ ProfileUpdate(u, IdText(old.id), d))
                    => (resp'.status = 200 /\ SkillsResolved(d.skill_names))]_vars

(* ---- C9: the job list against the filters of the query string ---- *)

\* the parameter was sent with a value
Supplied(v) == v # Absent /\ v # <<>>

\* needle occurs in hay at position i, letter case ignored
OccursAt(hay, needle, i) ==
    /\ i + Len(needle) - 1 <= Len(hay)
    /\ \A k \in 1..Len(needle) : LowerChar(hay[i + k - 1]) = LowerChar(needle[k])

\* q is a substring of the title, the description or the company name of j
MatchesSearch(j, q) ==
    \E text \in {j.title, j.description} \cup
                {c.name : c \in {c \in db["companies"] : c.id = j.company}} :
        \E i \in 1..Len(text) : OccursAt(text, q, i)

\* the foreign key is the id the parameter names
MatchesId(fk, v) == fk # NULL /\ IdText(fk) = v

\* the active jobs that satisfy every supplied parameter
ExpectedJobs(p) ==
    {j.id : j \in {j \in db["jobs"] :
        /\ j.is_active
        /\ Supplied(p.q) => MatchesSearch(j, p.q)
        /\ Supplied(p.category) => MatchesId(j.category, p.category)
        /\ Supplied(p.type) => MatchesId(j.job_type, p.type)
        /\ Supplied(p.location) => MatchesId(j.location, p.location)}}

(* C9: whatever the query string, the job list is answered 200 with exactly
   the active jobs that satisfy every supplied parameter. *)
C9_JobListIsFilterConjunction ==
    (resp.coll = "jobs" /\ resp.op = "list") =>
        (resp.status = 200 /\ resp.body = ExpectedJobs(resp.query))

(* ---- C11: skill_names replaces the skills of the profile ---- *)

\* the associations `ids` are skills of the table after the step, one at most
\* for each listed name, and their canonical names are those of the list
SkillsAre(ids, names) ==
    /\ ids \subseteq Ids(db'["skills"])
    /\ Cardinality(ids) <= Len(names)
    /\ CanonicalSkills({s \in db'["skills"] : s.id \in ids}) = CanonicalNames(names)

\* the skills of row `new` after a successful write of body d over the
\* associations `before`
SkillsWritten(new, before, d) ==
    IF Has(d, "skill_names") THEN SkillsAre(new.skills, d.skill_names)
    ELSE new.skills = before

(* C11: a successful profile create or update carrying skill_names leaves the
   profile with exactly the skills its names resolve to (an empty list: none);
   one without skill_names leaves the profile's skills as they were; no other
   profile changes. *)
C11_SkillNamesReplace ==
    [][\A u \in Users, d \in ProfileBodies :
          /\ (/\ Answers("profiles", "create")
              /\ resp'.status = 201
              /\ ProfileCreate(u, d))
             => /\ db["profiles"] \subseteq db'["profiles"]
                /\ \E new \in db'["profiles"] \ db["profiles"] :
                      /\ db'["profiles"] = db["profiles"] \cup {new}
                      /\ SkillsWritten(new, {}, d)
          /\ \A old \in ProfileQueryset(u) :
                (/\ Answers("profiles", "update")
                 /\ resp'.status = 200
                 /\ ProfileUpdate(u, IdText(old.id), d))
                => \E new \in db'["profiles"] :
                      /\ new.id = old.id
                      /\ db'["profiles"] \ {new} = db["profiles"] \ {old}
                      /\ SkillsWritten(new, old.skills, d)]_vars

\* an update with an empty list was answered 200 on the profile that the
\* two-name body had given two skills: the profile has none, the skills remain
C11_Witness ==
    /\ resp.coll = "profiles" /\ resp.op = "update" /\ resp.status = 200
    /\ Cardinality(db["skills"]) = 2
    /\ \E p \in db["profiles"] : p.current_title = <<"A">> /\ p.skills = {}

(* C12: every application created through the API has the requesting user as
   applicant and status PENDING whatever the body sends, and no request
   changes the applicant or the status of an application. *)
C12_ApplicantAndStatusServerSet ==
    [][/\ \A u \in Users, d \in ApplicationBodies :
             (Answers("applications", "create") /\ ApplicationCreate(u, d)) =>
                 \A r \in db'["applications"] \ db["applications"] :
                     r.applicant = u /\ r.status = "PENDING"
       /\ \A r \in db["applications"], t \in db'["applications"] :
             r.id = t.id => (t.applicant = r.applicant /\ t.status = r.status)]_vars

\* u1 created an application with the body that names u2 as applicant and
\* ACCEPTED as status
C12_Witness ==
    /\ resp.coll = "applications" /\ resp.op = "create" /\ resp.status = 201
    /\ \E r \in db["applications"] :
          /\ resp.body = {r.id}
          /\ r.cover_letter = <<"a">>
          /\ r.applicant = "u1" /\ r.status = "PENDING"

(* ---------------------------- C13 ---------------------------- *)

\* the job is among those the query string selects
Selects(p, j) == j.id \in ExpectedJobs(p)

\* the step is a request on /jobs/<j.id>/ with query string p
AddressesJob(u, p, j) ==
    \/ Answers("jobs", "retrieve") /\ Retrieve("jobs", u, p, IdText(j.id))
    \/ /\ Answers("jobs", "update")
       /\ \E b \in BOOLEAN : JobUpdate(u, p, IdText(j.id), [is_active |-> b], TRUE)
    \/ Answers("jobs", "destroy") /\ JobDestroy(u, p, IdText(j.id))

(* C13: a job whose is_active is false stays in the table with is_active
   false, is in no answer to a list or a retrieve of jobs and is found by no
   retrieve, update or delete; and a retrieve, update or delete of an active
   job with a query string that the job does not match is answered 404 and
   changes nothing. *)
C13_DeactivationIrreversible ==
    [][\A j \in db["jobs"] :
          /\ ~j.is_active =>
                /\ j \in db'["jobs"]
                /\ (resp'.coll = "jobs" /\ resp'.op \in {"list", "retrieve"})
                       => j.id \notin resp'.body
                /\ \A u \in Users, p \in DetailParams :
                       AddressesJob(u, p, j)
                           => resp'.status \in {404, 500} /\ Unchanged
          /\ j.is_active =>
                \A u \in Users, p \in DetailParams :
                    (~Selects(p, j) /\ AddressesJob(u, p, j))
                        => resp'.status = 404 /\ Unchanged]_vars

(* ---------------------------- C14 ---------------------------- *)

\* resolving the skill names of the body fails on the current skills table
ResolutionFails(d) ==
    ~ResolveSkills(ValidatedNames(d), db["skills"], seq["skills"]).ok

(* C14: a profile create or update whose skill_names cannot all be resolved
   or created is answered with an error and leaves every table and every
   sequence as it was: no profile row or core field, no Skill and no skill
   association is written. *)
C14_ProfileWriteAllOrNothing ==
    [][\A u \in Users, d \in ProfileBodies :
          /\ (/\ Answers("profiles", "create")
              /\ ProfileCreate(u, d)
              /\ ResolutionFails(d))
                 => resp'.status >= 400 /\ Unchanged
          /\ \A old \in ProfileQueryset(u) :
                 (/\ Answers("profiles", "update")
                  /\ ProfileUpdate(u, IdText(old.id), d)
                  /\ ResolutionFails(d))
                     => resp'.status >= 400 /\ Unchanged]_vars

\* an update was answered 500 while the only Skill is "A": the body named
\* "b" before "A", and neither the Skill "b" nor the title "A" was kept
C14_Witness ==
    /\ resp.coll = "profiles" /\ resp.op = "update" /\ resp.status = 500
    /\ {s.name : s \in db["skills"]} = {<<"A">>}
    /\ seq["skills"] = 1
    /\ \E p \in db["profiles"] : p.current_title = <<>> /\ p.skills = {}

====
